---------------------------- MODULE Spec2Model ----------------------------
(***************************************************************************)
(* Model of classifier/train.py: the run orchestrator train(), the linear  *)
(* training loop train_svm(), the Keras MetricCallback and the             *)
(* frame-to-file majority vote shared by train_svm() and train_mlp().      *)
(*                                                                         *)
(* Losses and tolerances are integers in units of 1e-4, so that the        *)
(* tolerance 1e-3 is 10 and the losses 1.0, 0.9, 0.9005 are 10000, 9000,   *)
(* 9005.  External collaborators (scikit-learn, Keras, the data loaders,   *)
(* compute_metrics) are modelled by nondeterministic results and by the    *)
(* possibility of raising at any call.                                     *)
(***************************************************************************)
EXTENDS Integers, Sequences, FiniteSets, TLC

VARIABLES
    \* ---- train(): the orchestrator and the file system of model_dir ----
    pc,                   \* position in train() / train_svm() / train_mlp()
    model_type,           \* argument model_type
    model_dir,            \* TRUE once the run directory exists
    config_json,          \* "absent" | "written"
    results_pkl,          \* "absent" | "empty" | "written"
    loaded,               \* data-loading collaborators called so far
    error,                \* "none" | "ValueError" | "external"
    failed_at,            \* pc at which the run failed ("" when it has not)
    \* ---- train_svm() ----
    num_batches,          \* batches the batch source holds when created
    train_gen,            \* batches the batch source still holds
    tol,                  \* argument tol (units of 1e-4)
    max_iterations,       \* argument max_iterations
    iter_idx,             \* enumerate() index of the current batch
    train_loss_history,
    valid_loss_history,
    train_metric_history,
    valid_metric_history,
    clf,                  \* number of partial_fit calls the classifier has seen
    stdizer,              \* number of partial_fit calls the standardizer has seen
    model_pkl,            \* <<>> when absent, else <<classifier state dumped>>
    num_saves,            \* number of joblib.dump calls
    \* ---- MetricCallback ----
    cb_begun,             \* TRUE once on_train_begin created the six lists
    train_loss,
    valid_loss,
    train_acc,
    valid_acc,
    valid_class_acc,
    valid_avg_class_acc,
    epoch_log,            \* what each on_epoch_end since on_train_begin was given
    \* ---- frame-to-file aggregation ----
    agg_pc,               \* "idle" | "loop" | "done"
    y_test_pred_frame,    \* flat per-frame class predictions
    file_idxs,            \* sequence of <<start_idx, end_idx>>, 0-based, half-open
    y_test_pred           \* per-file predictions built so far

trainVars == <<pc, model_type, model_dir, config_json, results_pkl, loaded,
               error, failed_at, num_batches, train_gen, tol, max_iterations,
               iter_idx, train_loss_history, valid_loss_history,
               train_metric_history, valid_metric_history, clf, stdizer,
               model_pkl, num_saves>>

cbVars == <<cb_begun, train_loss, valid_loss, train_acc, valid_acc,
            valid_class_acc, valid_avg_class_acc, epoch_log>>

aggVars == <<agg_pc, y_test_pred_frame, file_idxs, y_test_pred>>

vars == <<trainVars, cbVars, aggVars>>

-----------------------------------------------------------------------------
(* Bounds of the model *)

MaxBatches == 4
MaxIterCap == 3

\* Losses the external loss function may return, in units of 1e-4.
LossValues == {9000, 9005, 10000}
ValidLossValues == {9500, 9700}
\* Values of tol in units of 1e-4: 0, the default 1e-3, and 0.1001.
TolValues == {0, 10, 1001}
\* Values of max_iterations; -1 stands for any negative value.
MaxIterValues == (-1)..MaxIterCap
ModelTypes == {"svm", "mlp", "invalid"}

Abs(x) == IF x < 0 THEN -x ELSE x

-----------------------------------------------------------------------------
(* train(): lines 305-385 *)

\* lines 30-33: __init__ stores valid_data and verbose; no history exists yet
CallbackInit ==
    /\ cb_begun = FALSE
    /\ train_loss = <<>> /\ valid_loss = <<>>
    /\ train_acc = <<>> /\ valid_acc = <<>>
    /\ valid_class_acc = <<>> /\ valid_avg_class_acc = <<>>
    /\ epoch_log = <<>>

\* No aggregation is running.
IdleAgg ==
    /\ agg_pc = "idle"
    /\ y_test_pred_frame = <<>>
    /\ file_idxs = <<>>
    /\ y_test_pred = <<>>

TrainInit ==
    /\ pc = "start"
    /\ model_type \in ModelTypes
    /\ tol \in TolValues
    /\ max_iterations \in MaxIterValues
    /\ model_dir = FALSE
    /\ config_json = "absent"
    /\ results_pkl = "absent"
    /\ loaded = {}
    /\ error = "none"
    /\ failed_at = ""
    /\ num_batches = 0
    /\ train_gen = 0
    /\ iter_idx = -1
    /\ train_loss_history = <<>>
    /\ valid_loss_history = <<>>
    /\ train_metric_history = <<>>
    /\ valid_metric_history = <<>>
    /\ clf = 0
    /\ stdizer = 0
    /\ model_pkl = <<>>
    /\ num_saves = 0

Init == TrainInit /\ CallbackInit /\ IdleAgg

svmVars == <<iter_idx, train_loss_history, valid_loss_history,
             train_metric_history, valid_metric_history, clf, stdizer,
             model_pkl, num_saves>>

\* lines 308-322: logging, seeding, os.makedirs(model_dir)
Train_MakeDirs ==
    /\ pc = "start"
    /\ model_dir' = TRUE
    /\ pc' = "save_config"
    /\ UNCHANGED <<cbVars, aggVars, model_type, config_json, results_pkl, loaded, error,
                   failed_at, num_batches, train_gen, tol, max_iterations,
                   svmVars>>

\* A config save that is skipped (the write deferred until after training).
Train_SaveConfig_Deferred ==
    /\ pc = "save_config"
    /\ pc' = "load_gen"
    /\ UNCHANGED <<cbVars, aggVars, model_type, model_dir, config_json, results_pkl, loaded,
                   error, failed_at, num_batches, train_gen, tol,
                   max_iterations, svmVars>>

\* lines 325-340: json.dump(config) into model_dir/config.json
Train_SaveConfig ==
    /\ pc = "save_config"
    /\ config_json' = "written"
    /\ pc' = "load_gen"
    /\ UNCHANGED <<cbVars, aggVars, model_type, model_dir, results_pkl, loaded, error,
                   failed_at, num_batches, train_gen, tol, max_iterations,
                   svmVars>>

\* lines 346-349: get_us8k_batch_generator(...); the source holds n batches
Train_LoadGen ==
    /\ pc = "load_gen"
    /\ \E n \in 0..MaxBatches :
          /\ num_batches' = n
          /\ train_gen' = n
    /\ loaded' = loaded \cup {"get_us8k_batch_generator"}
    /\ pc' = "load_valid"
    /\ UNCHANGED <<cbVars, aggVars, model_type, model_dir, config_json, results_pkl, error,
                   failed_at, tol, max_iterations, svmVars>>

\* lines 350-353: get_us8k_batch(..., valid=True, ...)
Train_LoadValid ==
    /\ pc = "load_valid"
    /\ loaded' = loaded \cup {"get_us8k_batch"}
    /\ pc' = "load_test"
    /\ UNCHANGED <<cbVars, aggVars, model_type, model_dir, config_json, results_pkl, error,
                   failed_at, num_batches, train_gen, tol, max_iterations,
                   svmVars>>

\* line 354: load_test_fold(features_dir, fold_idx)
Train_LoadTest ==
    /\ pc = "load_test"
    /\ loaded' = loaded \cup {"load_test_fold"}
    /\ pc' = "dispatch"
    /\ UNCHANGED <<cbVars, aggVars, model_type, model_dir, config_json, results_pkl, error,
                   failed_at, num_batches, train_gen, tol, max_iterations,
                   svmVars>>

\* lines 358-369: the model-type dispatch; the else branch raises ValueError
Train_Dispatch ==
    /\ pc = "dispatch"
    /\ IF model_type = "svm"
         THEN pc' = "svm_init" /\ UNCHANGED <<error, failed_at>>
         ELSE IF model_type = "mlp"
           THEN pc' = "mlp_setup" /\ UNCHANGED <<error, failed_at>>
           ELSE /\ pc' = "failed"
                /\ error' = "ValueError"
                /\ failed_at' = "dispatch"
    /\ UNCHANGED <<cbVars, aggVars, model_type, model_dir, config_json, results_pkl, loaded,
                   num_batches, train_gen, tol, max_iterations, svmVars>>

\* lines 372-383: assemble results, open results.pkl and pickle them
Train_SaveResults ==
    /\ pc = "assemble"
    /\ results_pkl' = "written"
    /\ pc' = "done"
    /\ UNCHANGED <<cbVars, aggVars, model_type, model_dir, config_json, loaded, error,
                   failed_at, num_batches, train_gen, tol, max_iterations,
                   svmVars>>

\* lines 381-383 raising: open() fails (no file) or pk.dump fails after
\* open(results_file, 'w') created the file (an empty file is left)
Train_SaveResultsFail ==
    /\ pc = "assemble"
    /\ results_pkl' \in {"absent", "empty"}
    /\ pc' = "failed"
    /\ error' = "external"
    /\ failed_at' = "assemble"
    /\ UNCHANGED <<cbVars, aggVars, model_type, model_dir, config_json, loaded, num_batches,
                   train_gen, tol, max_iterations, svmVars>>

\* Positions at which a collaborator call can raise; train() catches nothing
\* (no try/except in lines 305-385), so the error ends the run.
RaisingPcs == {"start", "save_config", "load_gen", "load_valid", "load_test",
               "svm_init", "svm_for", "svm_fit", "svm_metrics", "svm_save",
               "svm_post", "svm_test", "mlp_setup", "mlp_fit", "mlp_test"}

Fail ==
    /\ pc \in RaisingPcs
    /\ pc' = "failed"
    /\ error' = "external"
    /\ failed_at' = pc
    /\ UNCHANGED <<cbVars, aggVars, model_type, model_dir, config_json, results_pkl, loaded,
                   num_batches, train_gen, tol, max_iterations, svmVars>>

-----------------------------------------------------------------------------
(* train_svm(): lines 69-173 *)

\* What the collaborators return for one batch: the two losses of
\* clf.loss_function_, the validation predictions and the two metric mappings.
ValidPreds == {<<0, 1>>}
AccValues == {50}
BatchOutcomes ==
    [train_loss : LossValues, valid_loss : ValidLossValues,
     valid_pred : ValidPreds, train_acc : AccValues, valid_acc : AccValues]

\* The stop test without abs(): a plain difference is compared with tol.
LossConverged_NoAbs(h, t) ==
    Len(h) > 1 /\ h[Len(h) - 1] - h[Len(h)] < t

\* The stop test without the length guard: a single loss counts as unchanged.
LossConverged_NoGuard(h, t) ==
    IF Len(h) > 1 THEN Abs(h[Len(h) - 1] - h[Len(h)]) < t ELSE 0 < t

\* line 149: len(h) > 1 and abs(h[-2] - h[-1]) < tol
LossConverged(h, t) ==
    Len(h) > 1 /\ Abs(h[Len(h) - 1] - h[Len(h)]) < t

trainArgs == <<model_type, model_dir, config_json, results_pkl, loaded,
               error, failed_at, num_batches, tol, max_iterations>>

\* lines 101-115: standardizer, empty histories, unfit SGDClassifier
Svm_Init ==
    /\ pc = "svm_init"
    /\ stdizer' = 0
    /\ clf' = 0
    /\ train_loss_history' = <<>>
    /\ valid_loss_history' = <<>>
    /\ train_metric_history' = <<>>
    /\ valid_metric_history' = <<>>
    /\ pc' = "svm_for"
    /\ UNCHANGED <<cbVars, aggVars, trainArgs, train_gen, iter_idx, model_pkl, num_saves>>

\* A loop head that runs the body once before looking at the batch source.
Svm_Next_BodyFirst ==
    /\ pc = "svm_for"
    /\ IF train_gen = 0 /\ iter_idx >= 0
         THEN pc' = "svm_post" /\ UNCHANGED <<train_gen, iter_idx>>
         ELSE /\ train_gen' = IF train_gen = 0 THEN 0 ELSE train_gen - 1
              /\ iter_idx' = iter_idx + 1
              /\ pc' = "svm_fit"
    /\ UNCHANGED <<cbVars, aggVars, trainArgs, train_loss_history, valid_loss_history,
                   train_metric_history, valid_metric_history, clf, stdizer,
                   model_pkl, num_saves>>

\* line 118: for iter_idx, train_data in enumerate(train_gen)
Svm_Next ==
    /\ pc = "svm_for"
    /\ IF train_gen = 0
         THEN pc' = "svm_post" /\ UNCHANGED <<train_gen, iter_idx>>
         ELSE /\ train_gen' = train_gen - 1
              /\ iter_idx' = iter_idx + 1
              /\ pc' = "svm_fit"
    /\ UNCHANGED <<cbVars, aggVars, trainArgs, train_loss_history, valid_loss_history,
                   train_metric_history, valid_metric_history, clf, stdizer,
                   model_pkl, num_saves>>

\* lines 119-126: stdizer.partial_fit, clf.partial_fit, the two predicts
Svm_Fit ==
    /\ pc = "svm_fit"
    /\ stdizer' = stdizer + 1
    /\ clf' = clf + 1
    /\ pc' = "svm_metrics"
    /\ UNCHANGED <<cbVars, aggVars, trainArgs, train_gen, iter_idx, train_loss_history,
                   valid_loss_history, train_metric_history,
                   valid_metric_history, model_pkl, num_saves>>

\* lines 129-133: the five appends to the four histories
Svm_Metrics ==
    /\ pc = "svm_metrics"
    /\ \E o \in BatchOutcomes :
          /\ valid_loss_history' =
                Append(Append(valid_loss_history, [pred |-> o.valid_pred]),
                       [loss |-> o.valid_loss])
          /\ train_loss_history' = Append(train_loss_history, o.train_loss)
          /\ train_metric_history' =
                Append(train_metric_history, [accuracy |-> o.train_acc])
          /\ valid_metric_history' =
                Append(valid_metric_history, [accuracy |-> o.valid_acc])
    /\ pc' = "svm_save"
    /\ UNCHANGED <<cbVars, aggVars, trainArgs, train_gen, iter_idx, clf, stdizer, model_pkl,
                   num_saves>>

\* A save that writes the checkpoint only when none exists yet.
Svm_Save_FirstOnly ==
    /\ pc = "svm_save"
    /\ IF model_pkl = <<>>
         THEN model_pkl' = <<clf>> /\ num_saves' = num_saves + 1
         ELSE UNCHANGED <<model_pkl, num_saves>>
    /\ pc' = "svm_check_tol"
    /\ UNCHANGED <<cbVars, aggVars, trainArgs, train_gen, iter_idx, train_loss_history,
                   valid_loss_history, train_metric_history,
                   valid_metric_history, clf, stdizer>>

\* line 137: joblib.dump(clf, model_output_path), overwriting model.pkl
Svm_Save ==
    /\ pc = "svm_save"
    /\ model_pkl' = <<clf>>
    /\ num_saves' = num_saves + 1
    /\ pc' = "svm_check_tol"
    /\ UNCHANGED <<cbVars, aggVars, trainArgs, train_gen, iter_idx, train_loss_history,
                   valid_loss_history, train_metric_history,
                   valid_metric_history, clf, stdizer>>

\* lines 149-150: break when the training loss did not change much
Svm_CheckTol ==
    /\ pc = "svm_check_tol"
    /\ pc' = IF LossConverged(train_loss_history, tol)
               THEN "svm_post" ELSE "svm_check_cap"
    /\ UNCHANGED <<cbVars, aggVars, trainArgs, train_gen, svmVars>>

\* lines 153-154: break when iter_idx >= max_iterations
Svm_CheckCap ==
    /\ pc = "svm_check_cap"
    /\ pc' = IF iter_idx >= max_iterations THEN "svm_post" ELSE "svm_for"
    /\ UNCHANGED <<cbVars, aggVars, trainArgs, train_gen, svmVars>>

\* lines 157-160: collapse_metrics and the two 'loss' entries
Svm_Post ==
    /\ pc = "svm_post"
    /\ pc' = "svm_test"
    /\ UNCHANGED <<cbVars, aggVars, trainArgs, train_gen, svmVars>>

\* lines 163-173: test-fold evaluation and return to train()
Svm_TestEval ==
    /\ pc = "svm_test"
    /\ pc' = "assemble"
    /\ UNCHANGED <<cbVars, aggVars, trainArgs, train_gen, svmVars>>

-----------------------------------------------------------------------------
(* train_mlp(): lines 205-302, as far as train() observes it *)

\* lines 243-254: keras_tuples, next(train_iter) pulls the first batch
\* (an empty source raises StopIteration), construct_mlp_model
Mlp_Setup ==
    /\ pc = "mlp_setup"
    /\ IF train_gen = 0
         THEN /\ pc' = "failed"
              /\ error' = "external"
              /\ failed_at' = "mlp_setup"
              /\ UNCHANGED train_gen
         ELSE /\ train_gen' = train_gen - 1
              /\ pc' = "mlp_fit"
              /\ UNCHANGED <<error, failed_at>>
    /\ UNCHANGED <<cbVars, aggVars, model_type, model_dir, config_json, results_pkl, loaded,
                   num_batches, tol, max_iterations, svmVars>>

\* lines 256-290: callbacks, compile, fit_generator, the metric mappings
Mlp_Fit ==
    /\ pc = "mlp_fit"
    /\ pc' = "mlp_test"
    /\ UNCHANGED <<cbVars, aggVars, trainArgs, train_gen, svmVars>>

\* lines 292-302: test-fold evaluation and return to train()
Mlp_TestEval ==
    /\ pc = "mlp_test"
    /\ pc' = "assemble"
    /\ UNCHANGED <<cbVars, aggVars, trainArgs, train_gen, svmVars>>

Next ==
    \/ Train_MakeDirs
    \/ Train_SaveConfig
    \/ Train_LoadGen
    \/ Train_LoadValid
    \/ Train_LoadTest
    \/ Train_Dispatch
    \/ Svm_Init
    \/ Svm_Next
    \/ Svm_Fit
    \/ Svm_Metrics
    \/ Svm_Save
    \/ Svm_CheckTol
    \/ Svm_CheckCap
    \/ Svm_Post
    \/ Svm_TestEval
    \/ Mlp_Setup
    \/ Mlp_Fit
    \/ Mlp_TestEval
    \/ Train_SaveResults
    \/ Train_SaveResultsFail
    \/ Fail

Spec == Init /\ [][Next]_vars

-----------------------------------------------------------------------------
(* Properties of train() and train_svm(), checked under Spec *)

\* train_svm's for loop has been left (by exhaustion or by a break).
SvmLoopExited ==
    /\ model_type = "svm"
    /\ \/ pc \in {"svm_post", "svm_test", "assemble", "done"}
       \/ pc = "failed" /\ failed_at \in {"svm_post", "svm_test", "assemble"}

\* Every pair of consecutive training losses differs by at least tol.
NoConvergedPair ==
    \A k \in 2..Len(train_loss_history) :
        Abs(train_loss_history[k] - train_loss_history[k - 1]) >= tol

\* Positions of train() after the config save and before the results write.
AfterConfigPcs == {"load_gen", "load_valid", "load_test", "dispatch",
                   "svm_init", "svm_for", "svm_fit", "svm_metrics",
                   "svm_save", "svm_check_tol", "svm_check_cap", "svm_post",
                   "svm_test", "mlp_setup", "mlp_fit", "mlp_test"}

\* C1: with a model_type other than 'svm' or 'mlp', train fails with
\* ValueError after only the directory creation and the config save: no
\* batch-generator, validation-batch or test-fold loader is ever called.
C1_InvalidTypeLoadsNothing ==
    (model_type \notin {"svm", "mlp"} /\ pc = "failed" /\ failed_at = "dispatch")
    => /\ error = "ValueError"
       /\ model_dir /\ config_json = "written"
       /\ loaded = {}

\* C2: when consecutive training losses always differ by at least tol and the
\* batch source holds more than max_iterations batches, the loop ends having
\* fitted exactly max_iterations batches.
C2_FitsExactlyMaxIterations ==
    (SvmLoopExited /\ NoConvergedPair /\ max_iterations >= 0
        /\ num_batches > max_iterations)
    => clf = max_iterations

\* C3: the loop stops right after the first iteration k >= 2 whose training
\* loss is within tol of the loss of iteration k-1 (nothing is pulled or
\* fitted after it), and when it stops with batches left and below the
\* iteration cap it is because of such a pair; with tol = 1e-3 and losses
\* 1.0, 0.9, 0.9005 it stops after the third iteration, not the second.
C3_StopsAtFirstConvergedPair ==
    LET h == train_loss_history IN
    /\ \A k \in 2..Len(h) :
          Abs(h[k] - h[k - 1]) < tol =>
             /\ k = Len(h)
             /\ clf = k
             /\ train_gen = num_batches - k
             /\ pc \notin {"svm_check_cap", "svm_for", "svm_fit", "svm_metrics"}
    /\ (SvmLoopExited /\ train_gen > 0 /\ iter_idx < max_iterations)
          => (Len(h) >= 2 /\ Abs(h[Len(h)] - h[Len(h) - 1]) < tol)
    /\ (SvmLoopExited /\ tol = 10 /\ train_gen > 0 /\ iter_idx < max_iterations
          /\ Len(h) >= 2 /\ h[1] = 10000 /\ h[2] = 9000)
          => (Len(h) >= 3 /\ (h[3] = 9005 => Len(h) = 3 /\ clf = 3))

C3_Witness ==
    /\ pc = "svm_post"
    /\ tol = 10
    /\ train_loss_history = <<10000, 9000, 9005>>
    /\ clf = 3
    /\ train_gen > 0
    /\ iter_idx < max_iterations

C6_FailureKeepsConfigNoResults ==
    /\ (pc = "failed" /\ failed_at \in AfterConfigPcs)
          => (config_json = "written" /\ results_pkl = "absent")
    /\ (loaded # {} \/ clf > 0 \/ stdizer > 0 \/ pc \in AfterConfigPcs)
          => config_json = "written"
    /\ results_pkl # "absent"
          => (pc \in {"done", "failed"} /\ failed_at \in {"", "assemble"}
              /\ model_type \in {"svm", "mlp"}
              /\ loaded = {"get_us8k_batch_generator", "get_us8k_batch",
                           "load_test_fold"})

C6_Witness ==
    /\ pc = "failed"
    /\ failed_at = "svm_metrics"
    /\ num_saves >= 1
    /\ config_json = "written"
    /\ results_pkl = "absent"

\* C7: the classifier is dumped to model.pkl after every batch, after the fit
\* and before either stop test, so at the stop tests and whenever the loop has
\* ended after at least one batch the number of dumps equals the number of
\* batches fitted and model.pkl holds the classifier as of the last fit.
C7_CheckpointAfterEveryBatch ==
    /\ pc = "svm_save" => num_saves = clf - 1
    /\ pc \in {"svm_check_tol", "svm_check_cap", "svm_for"}
          => (num_saves = clf /\ (clf >= 1 => model_pkl = <<clf>>))
    /\ (SvmLoopExited /\ clf >= 1)
          => (num_saves = clf /\ model_pkl = <<clf>>)

C7_Witness ==
    /\ pc = "svm_post"
    /\ clf >= 2
    /\ num_saves = clf
    /\ model_pkl = <<clf>>

\* C8: with a batch source of zero batches the loop body never runs: nothing
\* is fitted or dumped, the four histories stay empty, train_svm raises no
\* error of its own and goes on to the collapsing and the test evaluation.
C8_EmptySourceLeavesUnfit ==
    (model_type = "svm" /\ num_batches = 0)
    => /\ clf = 0 /\ stdizer = 0
       /\ num_saves = 0 /\ model_pkl = <<>>
       /\ train_loss_history = <<>> /\ valid_loss_history = <<>>
       /\ train_metric_history = <<>> /\ valid_metric_history = <<>>
       /\ error # "ValueError"
       /\ pc \notin {"svm_fit", "svm_metrics", "svm_save", "svm_check_tol",
                     "svm_check_cap"}

C8_Witness ==
    /\ pc = "svm_test"
    /\ "get_us8k_batch_generator" \in loaded
    /\ num_batches = 0
    /\ clf = 0 /\ stdizer = 0
    /\ error = "none"

\* C10: after every completed iteration the four histories have the same
\* length, the number of batches fitted, and every entry of the
\* validation-loss history is a loss value.
C10_HistoriesSameLength ==
    (model_type = "svm" /\ pc \in {"svm_save", "svm_check_tol", "svm_check_cap",
                                   "svm_post", "svm_test", "assemble", "done"})
    => /\ Len(train_loss_history) = clf
       /\ Len(valid_loss_history) = clf
       /\ Len(train_metric_history) = clf
       /\ Len(valid_metric_history) = clf
       /\ \A i \in 1..Len(valid_loss_history) :
             DOMAIN valid_loss_history[i] = {"loss"}

-----------------------------------------------------------------------------
(* MetricCallback: lines 28-66, driven by the Keras runtime *)

MaxEpochs == 3

\* train() is not running: the state the other two specifications hold fixed.
TrainIdle ==
    /\ pc = "idle"
    /\ model_type = "mlp"
    /\ tol = 10
    /\ max_iterations = 0
    /\ model_dir = FALSE
    /\ config_json = "absent"
    /\ results_pkl = "absent"
    /\ loaded = {}
    /\ error = "none"
    /\ failed_at = ""
    /\ num_batches = 0
    /\ train_gen = 0
    /\ iter_idx = -1
    /\ train_loss_history = <<>>
    /\ valid_loss_history = <<>>
    /\ train_metric_history = <<>>
    /\ valid_metric_history = <<>>
    /\ clf = 0
    /\ stdizer = 0
    /\ model_pkl = <<>>
    /\ num_saves = 0

\* A Python value that may be None: <<>> is None, <<v>> is the value v.
\* logs.get(key) of lines 49-52.
Get(logs, key) == IF key \in DOMAIN logs THEN <<logs[key]>> ELSE <<>>

\* The logs Keras hands to on_epoch_end: nothing (logs=None becomes {}) or
\* the four monitored quantities.
EmptyLogs == [k \in {} |-> 0]
LogsValues ==
    {EmptyLogs} \cup [loss : {1, 2}, val_loss : {3, 4}, acc : {5}, val_acc : {6}]
\* What compute_metrics returns for the validation predictions of an epoch.
ValidMetricsValues ==
    [class_accuracy : {7, 8}, average_class_accuracy : {9}]

\* lines 35-43
on_train_begin ==
    /\ train_loss' = <<>>
    /\ valid_loss' = <<>>
    /\ train_acc' = <<>>
    /\ valid_acc' = <<>>
    /\ valid_class_acc' = <<>>
    /\ valid_avg_class_acc' = <<>>
    /\ cb_begun' = TRUE
    /\ epoch_log' = <<>>
    /\ UNCHANGED <<trainVars, aggVars>>

\* on_epoch_end with the validation loss read from the key 'loss'.
on_epoch_end_WrongKey ==
    /\ cb_begun
    /\ Len(epoch_log) < MaxEpochs
    /\ \E logs \in LogsValues, valid_metrics \in ValidMetricsValues :
          /\ train_loss' = Append(train_loss, Get(logs, "loss"))
          /\ valid_loss' = Append(valid_loss, Get(logs, "loss"))
          /\ train_acc' = Append(train_acc, Get(logs, "acc"))
          /\ valid_acc' = Append(valid_acc, Get(logs, "val_acc"))
          /\ valid_class_acc' =
                Append(valid_class_acc, valid_metrics.class_accuracy)
          /\ valid_avg_class_acc' =
                Append(valid_avg_class_acc,
                       valid_metrics.average_class_accuracy)
          /\ epoch_log' =
                Append(epoch_log, [logs |-> logs, valid_metrics |-> valid_metrics])
    /\ UNCHANGED <<trainVars, aggVars, cb_begun>>

\* lines 46-57 (the lists exist only after on_train_begin)
on_epoch_end ==
    /\ cb_begun
    /\ Len(epoch_log) < MaxEpochs
    /\ \E logs \in LogsValues, valid_metrics \in ValidMetricsValues :
          /\ train_loss' = Append(train_loss, Get(logs, "loss"))
          /\ valid_loss' = Append(valid_loss, Get(logs, "val_loss"))
          /\ train_acc' = Append(train_acc, Get(logs, "acc"))
          /\ valid_acc' = Append(valid_acc, Get(logs, "val_acc"))
          /\ valid_class_acc' =
                Append(valid_class_acc, valid_metrics.class_accuracy)
          /\ valid_avg_class_acc' =
                Append(valid_avg_class_acc,
                       valid_metrics.average_class_accuracy)
          /\ epoch_log' =
                Append(epoch_log, [logs |-> logs, valid_metrics |-> valid_metrics])
    /\ UNCHANGED <<trainVars, aggVars, cb_begun>>

CallbackNext ==
    \/ on_train_begin
    \/ on_epoch_end

InitCallback == TrainIdle /\ CallbackInit /\ IdleAgg

SpecCallback == InitCallback /\ [][CallbackNext]_vars

\* C9: after on_train_begin and n on_epoch_end calls each of the six
\* histories has exactly n entries, entry i being what the i-th epoch end
\* recorded; a later on_train_begin leaves all six empty.
C9_SixHistoriesPerEpoch ==
    cb_begun =>
        /\ Len(train_loss) = Len(epoch_log)
        /\ Len(valid_loss) = Len(epoch_log)
        /\ Len(train_acc) = Len(epoch_log)
        /\ Len(valid_acc) = Len(epoch_log)
        /\ Len(valid_class_acc) = Len(epoch_log)
        /\ Len(valid_avg_class_acc) = Len(epoch_log)
        /\ \A i \in 1..Len(epoch_log) :
              /\ train_loss[i] = Get(epoch_log[i].logs, "loss")
              /\ valid_loss[i] = Get(epoch_log[i].logs, "val_loss")
              /\ train_acc[i] = Get(epoch_log[i].logs, "acc")
              /\ valid_acc[i] = Get(epoch_log[i].logs, "val_acc")
              /\ valid_class_acc[i] = epoch_log[i].valid_metrics.class_accuracy
              /\ valid_avg_class_acc[i] =
                    epoch_log[i].valid_metrics.average_class_accuracy

C9_Witness ==
    /\ cb_begun
    /\ Len(epoch_log) = 2
    /\ train_loss = <<<<1>>, <<>>>>
    /\ valid_loss = <<<<4>>, <<>>>>
    /\ valid_class_acc = <<7, 8>>
    /\ Len(valid_avg_class_acc) = 2

-----------------------------------------------------------------------------
(* Frame-to-file aggregation: lines 164-170 of train_svm, 294-299 of train_mlp *)

MaxFrames == 4
MaxClass == 2

Classes == 0..MaxClass

\* The test fold of the property in the design document.
ExampleFrames == <<0, 0, 1, 0, 1, 1, 1, 0>>
ExampleFileIdxs == <<<<0, 4>>, <<4, 8>>>>

RECURSIVE RangesFrom(_, _, _)
\* The ranges that cut 0..n at the points of cuts, in order, starting at start.
RangesFrom(start, cuts, n) ==
    IF start >= n THEN <<>>
    ELSE LET later == {c \in cuts : c > start}
             stop == IF later = {} THEN n
                     ELSE CHOOSE c \in later : \A d \in later : c <= d
         IN <<<<start, stop>>>> \o RangesFrom(stop, cuts, n)

\* y[start:end] for 0 <= start <= end <= len(y)
Slice(y, start, end) == SubSeq(y, start + 1, end)

Count(v, s) == Cardinality({i \in DOMAIN s : s[i] = v})

RECURSIVE SortedUnique(_)
\* np.unique: the distinct values in ascending order
SortedUnique(S) ==
    IF S = {} THEN <<>>
    ELSE LET m == CHOOSE x \in S : \A y \in S : x <= y
         IN <<m>> \o SortedUnique(S \ {m})

RECURSIVE ModeScan(_, _, _, _)
\* scipy.stats.mode's scan of the scores: a score replaces the most frequent
\* one only when its count is strictly larger.
ModeScan(scores, s, mostfrequent, oldcounts) ==
    IF scores = <<>> THEN mostfrequent
    ELSE LET score == Head(scores)
             counts == Count(score, s)
         IN IF counts > oldcounts
              THEN ModeScan(Tail(scores), s, score, counts)
              ELSE ModeScan(Tail(scores), s, mostfrequent, oldcounts)

\* The vote replaced by the first frame's prediction.
Mode_FirstFrame(s) == s[1]

\* mode(s)[0][0] of lines 167 and 297, for a non-empty flat s
Mode(s) ==
    LET scores == SortedUnique({s[i] : i \in DOMAIN s})
    IN ModeScan(scores, s, Head(scores), 0)

\* A test fold: a flat array of frame predictions and ranges partitioning it.
InitAgg ==
    /\ TrainIdle
    /\ CallbackInit
    /\ agg_pc = "loop"
    /\ y_test_pred = <<>>
    /\ \/ \E n \in 0..MaxFrames :
             /\ y_test_pred_frame \in [1..n -> Classes]
             /\ \E cuts \in SUBSET (1..(n - 1)) :
                   file_idxs = RangesFrom(0, cuts, n)
       \/ /\ y_test_pred_frame = ExampleFrames
          /\ file_idxs = ExampleFileIdxs

\* lines 166-168 (296-298): one pass of the loop over file_idxs
Agg_Step ==
    /\ agg_pc = "loop"
    /\ Len(y_test_pred) < Len(file_idxs)
    /\ LET idx == file_idxs[Len(y_test_pred) + 1]
           class_pred == Mode(Slice(y_test_pred_frame, idx[1], idx[2]))
       IN y_test_pred' = Append(y_test_pred, class_pred)
    /\ UNCHANGED <<trainVars, cbVars, agg_pc, y_test_pred_frame, file_idxs>>

\* line 170 (299): the loop is over, y_test_pred = np.array(y_test_pred)
Agg_Finish ==
    /\ agg_pc = "loop"
    /\ Len(y_test_pred) = Len(file_idxs)
    /\ agg_pc' = "done"
    /\ UNCHANGED <<trainVars, cbVars, y_test_pred_frame, file_idxs,
                   y_test_pred>>

AggNext ==
    \/ Agg_Step
    \/ Agg_Finish

SpecAgg == InitAgg /\ [][AggNext]_vars

\* C5: for a flat array of frame predictions and ranges partitioning it, the
\* aggregation returns one prediction per range, in the order of the ranges,
\* the i-th being a most frequent value of the frames in [start_i, end_i);
\* frames [0,0,1,0,1,1,1,0] with ranges [(0,4),(4,8)] give [0, 1].
C5_MajorityVotePerFile ==
    /\ Len(y_test_pred) <= Len(file_idxs)
    /\ agg_pc = "done" => Len(y_test_pred) = Len(file_idxs)
    /\ \A i \in 1..Len(y_test_pred) :
          LET lo == file_idxs[i][1]
              hi == file_idxs[i][2]
              votes(v) == Cardinality({j \in (lo + 1)..hi :
                                          y_test_pred_frame[j] = v})
          IN /\ votes(y_test_pred[i]) >= 1
             /\ \A v \in Classes : votes(v) <= votes(y_test_pred[i])
    /\ (agg_pc = "done" /\ y_test_pred_frame = ExampleFrames
           /\ file_idxs = ExampleFileIdxs)
          => y_test_pred = <<0, 1>>

C5_Witness ==
    /\ agg_pc = "done"
    /\ y_test_pred_frame = ExampleFrames
    /\ file_idxs = ExampleFileIdxs
    /\ y_test_pred = <<0, 1>>

=============================================================================
